---- MODULE Spec2Model ----
(***************************************************************************)
(* The data pipeline of the crime dashboard: src/app.py (table mode) and   *)
(* src/google-heatmaps.py (map mode).  Each script is re-executed top to   *)
(* bottom on every interaction; one action models one such execution.      *)
(*                                                                         *)
(* A cell of the uploaded table is a record [k, v]:                        *)
(*   k = "nan"     a missing cell (pandas NaN)                             *)
(*   k = "num"     a number v                                              *)
(*   k = "str"     text that is no number; v is its rank in sort order     *)
(*   k = "numstr"  text that parses to the number v                        *)
(*   k = "none"    Python None (what a selectbox without options returns)  *)
(***************************************************************************)
EXTENDS Integers, Sequences, FiniteSets, TLC

VARIABLES mode, uploaded_file, status, steps, df, years, selected_year,
          states, selected_state, filtered_df, district_df, top_n,
          top_districts

vars == <<mode, uploaded_file, status, steps, df, years, selected_year,
          states, selected_state, filtered_df, district_df, top_n,
          top_districts>>

\* ---------------------------------------------------------------- bounds
MaxRows == 3
MaxRankRows == 6

\* ------------------------------------------------------- program constants
TopNMin == 5
TopNMax == 25
TopNDefault == 10

\* ------------------------------------------------------------------ cells
NaN == [k |-> "nan", v |-> 0]
None == [k |-> "none", v |-> 0]
Num(i) == [k |-> "num", v |-> i]
Str(i) == [k |-> "str", v |-> i]
NumStr(i) == [k |-> "numstr", v |-> i]

isna(c) == c.k \in {"nan", "none"}

\* The elementwise == of a pandas column with a scalar: NaN and None equal
\* nothing, not even themselves.
Eq(a, b) == ~isna(a) /\ ~isna(b) /\ a = b

Range(s) == {s[i] : i \in DOMAIN s}

\* The one element of a singleton.  {F(x) : x \in {v}} computes v once, as an
\* assignment to a variable of the script does.
The(S) == CHOOSE x \in S : TRUE
Min2(a, b) == IF a <= b THEN a ELSE b

\* ----------------------------------------------------------------- tables
\* A table is [cols |-> set of column names, rows |-> sequence of rows]; a
\* row is a function from the column names to cells.
NoTable == [cols |-> {}, rows |-> <<>>]

Col(t, c) == [i \in 1..Len(t.rows) |-> t.rows[i][c]]

SetCol(t, c, s) ==
    [t EXCEPT !.rows = [i \in 1..Len(t.rows) |-> [t.rows[i] EXCEPT ![c] = s[i]]]]

\* A fill that takes the first value of the column instead of the nearest one
\* above.
ffill_first(s) ==
    [i \in 1..Len(s) |-> IF isna(s[i]) /\ Len(s) > 0 THEN s[1] ELSE s[i]]

\* Series.ffill(): a missing cell takes the value the cell above it has after
\* filling; the first cell has no cell above it.
ffill(s) ==
    LET f[i \in 0..Len(s)] ==
            IF i = 0 THEN <<>>
            ELSE Append(f[i-1],
                        IF isna(s[i]) /\ i > 1 THEN f[i-1][i-1] ELSE s[i])
    IN  f[Len(s)]

\* The columns forward-filled, in the order of the assignments.
fill_cols(m) ==
    IF m = "table" THEN <<"state_name", "district_name", "registration_circles">>
    ELSE <<"state_name", "district_name">>

\* df[c] = df[c].ffill() for each column in turn; df[c] raises KeyError on the
\* first column the table lacks, and the assignments before it have been made.
RECURSIVE FillFrom(_, _, _)
FillFrom(t, cs, i) ==
    IF i > Len(cs) THEN [df |-> t, err |-> FALSE]
    ELSE IF cs[i] \notin t.cols THEN [df |-> t, err |-> TRUE]
    ELSE FillFrom(SetCol(t, cs[i], ffill(Col(t, cs[i]))), cs, i + 1)

required_columns == {"lat", "lon"}

exclude_cols(m) ==
    IF m = "table"
    THEN {"year", "state_name", "district_name", "registration_circles"}
    ELSE {"year", "state_name", "district_name", "registration_circles",
          "lat", "lon"}

crime_cols(t, m) == t.cols \ exclude_cols(m)

\* pd.to_numeric(errors="coerce"): a number or numeric text gives the number,
\* anything else NaN.
to_numeric(c) == IF c.k \in {"num", "numstr"} THEN Num(c.v) ELSE NaN

\* A coercion that forgets .fillna(0).
fillna_keep(c) == c

\* .fillna(0)
fillna(c) == IF isna(c) THEN Num(0) ELSE c

Coerce(t, m) ==
    [t EXCEPT !.rows =
        [i \in 1..Len(t.rows) |->
            [c \in t.cols |->
                IF c \in crime_cols(t, m) THEN fillna(to_numeric(t.rows[i][c]))
                ELSE t.rows[i][c]]]]

\* sorted(): ascending; comparing NaN (a float) with text raises TypeError.
SortRaises(S) == Cardinality(S) > 1 /\ (\E a \in S : isna(a)) /\ (\E b \in S : b.k = "str")

RECURSIVE sorted(_)
sorted(S) ==
    IF S = {} THEN <<>>
    ELSE LET lo == CHOOSE a \in S : \A b \in S : a.v <= b.v
         IN  <<lo>> \o sorted(S \ {lo})

\* st.selectbox: the option picked, the first option when nothing (valid) is
\* picked, None when there are no options.
selectbox(options, pick) ==
    IF options = <<>> THEN None
    ELSE IF pick \in Range(options) THEN pick
    ELSE options[1]

\* df[(df["year"] == selected_year) & (df["state_name"] == selected_state)]:
\* the matching rows, in file order.
Filter(t, y, s) ==
    LET f[i \in 0..Len(t.rows)] ==
            IF i = 0 THEN <<>>
            ELSE IF Eq(t.rows[i]["year"], y) /\ Eq(t.rows[i]["state_name"], s)
                 THEN Append(f[i-1], t.rows[i])
                 ELSE f[i-1]
    IN  [t EXCEPT !.rows = f[Len(t.rows)]]

\* ------------------------------------------------------------ aggregation
key_cols(m) ==
    IF m = "table" THEN <<"district_name">> ELSE <<"district_name", "lat", "lon">>

KeyOf(r, kc) == [j \in 1..Len(kc) |-> r[kc[j]]]

HasNaKey(key) == \E j \in DOMAIN key : isna(key[j])

\* Keys compare column by column (tuples).
KeyLess(a, b) ==
    \E j \in DOMAIN a : a[j].v < b[j].v /\ \A i \in 1..(j-1) : a[i].v = b[i].v

RECURSIVE SortKeys(_)
SortKeys(S) ==
    IF S = {} THEN <<>>
    ELSE LET lo == CHOOSE a \in S : \A b \in S : ~KeyLess(b, a)
         IN  <<lo>> \o SortKeys(S \ {lo})

RECURSIVE SumSet(_, _)
SumSet(f, S) ==
    IF S = {} THEN 0
    ELSE LET x == CHOOSE e \in S : TRUE IN f[x] + SumSet(f, S \ {x})

\* sum() skips cells that are no number.
NumVal(c) == IF c.k = "num" THEN c.v ELSE 0

\* filtered_df.groupby(key_cols, as_index=False)[crime_cols].sum(): the groups
\* are the keys of the rows, keys with a missing component dropped (dropna=True
\* is the default), in ascending key order (sort=True is the default).
groupby(t, kc, cc) ==
    LET n == Len(t.rows)
        keys == {KeyOf(t.rows[i], kc) : i \in 1..n}
        kept == {key \in keys : ~HasNaKey(key)}
        order == SortKeys(kept)
        members(key) == {i \in 1..n : KeyOf(t.rows[i], kc) = key}
    IN  [cols |-> Range(kc) \cup cc,
         rows |-> [j \in 1..Len(order) |->
                    [key |-> order[j],
                     sums |-> [c \in cc |->
                                SumSet([i \in 1..n |-> NumVal(t.rows[i][c])],
                                       members(order[j]))]]]]

\* district_df["total_crime"] = district_df[crime_cols].sum(axis=1)
WithTotal(d, cc) ==
    [cols |-> d.cols \cup {"total_crime"},
     rows |-> [j \in 1..Len(d.rows) |->
                [key |-> d.rows[j].key, sums |-> d.rows[j].sums,
                 total_crime |-> SumSet(d.rows[j].sums, cc)]]]

\* ------------------------------------------------------------ crime index
\* A scaler that divides by the range as it is.
handle_zeros_none(r) == r

\* sklearn's _handle_zeros_in_scale: a zero range scales by 1.
handle_zeros_in_scale(r) == IF r = 0 THEN 1 ELSE r

SeqMin(X) == CHOOSE a \in Range(X) : \A b \in Range(X) : a <= b
SeqMax(X) == CHOOSE a \in Range(X) : \A b \in Range(X) : a >= b

\* MinMaxScaler().fit_transform(X) for a non-empty column X, feature_range
\* (0, 1): scale_ = 1 / range, min_ = 0 - data_min * scale_, X * scale_ + min_.
\* The result is kept as the exact fraction num / den (den is the range, or 1).
fit_transform(X) ==
    LET data_min == SeqMin(X)
        data_range == SeqMax(X) - data_min
        den == handle_zeros_in_scale(data_range)
    IN  [j \in 1..Len(X) |-> [num |-> X[j] + (0 - data_min), den |-> den]]

WithIndex(d) ==
    [cols |-> d.cols \cup {"crime_index"},
     rows |-> The({[j \in 1..Len(d.rows) |->
                        [key |-> d.rows[j].key, sums |-> d.rows[j].sums,
                         total_crime |-> d.rows[j].total_crime,
                         crime_index |-> ci[j]]] :
                   ci \in {fit_transform([j \in 1..Len(d.rows) |->
                                            d.rows[j].total_crime])}})]

\* ----------------------------------------------------------------- ranker
\* a >= b for two fractions with positive denominators.
IndexGE(a, b) == a.num * b.den >= b.num * a.den
IndexEq(a, b) == a.num * b.den = b.num * a.den

Descending(rows) ==
    \A i, j \in DOMAIN rows :
        i < j => IndexGE(rows[i].crime_index, rows[j].crime_index)

\* sort_values("crime_index", ascending=False) with the default kind,
\* "quicksort", which is not stable: any descending order of the rows may come
\* out, whatever the order of equal rows was.  The orders of the row numbers in
\* S, largest crime_index first.
RECURSIVE SortOrders(_, _)
SortOrders(rows, S) ==
    IF S = {} THEN {<<>>}
    ELSE UNION {{<<i>> \o o : o \in SortOrders(rows, S \ {i})} :
                i \in {a \in S : \A b \in S :
                        IndexGE(rows[a].crime_index, rows[b].crime_index)}}

sort_values(rows) ==
    {[i \in DOMAIN rows |-> rows[o[i]]] : o \in SortOrders(rows, DOMAIN rows)}

\* A ranker that forgets .head(top_n).
head_all(s, n) == s

\* .head(top_n)
head(s, n) == SubSeq(s, 1, Min2(n, Len(s)))

\* The tables district_df.sort_values(...).head(top_n) can be.
Ranked(d, n) == {[cols |-> d.cols, rows |-> head(o, n)] : o \in sort_values(d.rows)}

\* ------------------------------------------------------------- the script
\* What one execution of the script leaves behind, up to the ranker: status is
\* "ok" or how the execution ended early, steps the stages completed.
Blank(t) ==
    [status |-> "ok", steps |-> <<>>, df |-> t, years |-> <<>>,
     selected_year |-> None, states |-> <<>>, selected_state |-> None,
     filtered_df |-> NoTable, district_df |-> NoTable]

\* From the crime index on; fd is filtered_df, dd is district_df with its
\* total_crime column.
CrimeIndex(done, r1, sts, st, fd, dd) ==
    LET r2 == [r1 EXCEPT !.states = sts, !.selected_state = st, !.filtered_df = fd]
    IN  IF Len(dd.rows) = 0
        THEN \* MinMaxScaler raises ValueError on a column of 0 samples
             [r2 EXCEPT !.status = "ValueError", !.district_df = dd,
                        !.steps = done \o <<"years", "states", "filter",
                                            "aggregate", "total_crime">>]
        ELSE [r2 EXCEPT !.district_df = WithIndex(dd),
                        !.steps = done \o <<"years", "states", "filter",
                                            "aggregate", "total_crime",
                                            "crime_index", "display">>]

\* Aggregate, total and crime index of the filtered rows fd.
Aggregate(m, t, done, r1, sts, st, fd) ==
    The({CrimeIndex(done, r1, sts, st, fd, dd) :
            dd \in {WithTotal(groupby(fd, key_cols(m), crime_cols(t, m)),
                              crime_cols(t, m))}})

\* The state selectbox and everything after it, for the selected year y.
States(m, t, done, r1, y, stateSet, pickState) ==
    IF SortRaises(stateSet)
    THEN [r1 EXCEPT !.status = "TypeError", !.steps = done \o <<"years">>]
    ELSE The({The({Aggregate(m, t, done, r1, sts, selectbox(sts, pickState), fd) :
                    fd \in {Filter(t, y, selectbox(sts, pickState))}}) :
                sts \in {sorted(stateSet)}})

\* From the sidebar filters on; t is the table after numeric coercion.
Selection(m, t, done, pickYear, pickState) ==
    LET n == Len(t.rows)
        ys == sorted({t.rows[i]["year"] : i \in {j \in 1..n : ~isna(t.rows[j]["year"])}})
        StatesOf(y) == {t.rows[i]["state_name"] : i \in {j \in 1..n : Eq(t.rows[j]["year"], y)}}
    IN  The({States(m, t, done, [Blank(t) EXCEPT !.years = ys, !.selected_year = y],
                    y, StatesOf(y), pickState) :
                y \in {selectbox(ys, pickYear)}})

Script(m, file, pickYear, pickState) ==
    LET fl == FillFrom(file, fill_cols(m), 1)
        s1 == <<"load", "normalize">>
        s2 == IF m = "map" THEN s1 \o <<"ffill", "check">> ELSE s1 \o <<"ffill">>
        dfc == Coerce(fl.df, m)
    IN  IF fl.err
        THEN [Blank(fl.df) EXCEPT !.status = "KeyError", !.steps = s1]
        ELSE IF m = "map" /\ ~(required_columns \subseteq fl.df.cols)
        THEN [Blank(fl.df) EXCEPT !.status = "SchemaError",
                                  !.steps = s1 \o <<"ffill">>]
        ELSE IF "year" \notin dfc.cols
        THEN [Blank(dfc) EXCEPT !.status = "KeyError",
                                !.steps = s2 \o <<"coerce">>]
        ELSE Selection(m, dfc, s2 \o <<"coerce">>, pickYear, pickState)

\* An execution that keeps the District Aggregate of the previous run while
\* the file and the selected year stay the same.
RerunCached(file, pickYear, pickState, n) ==
    LET r == Script(mode, file, pickYear, pickState)
        stale == status = "ok" /\ r.status = "ok" /\ file = uploaded_file
                    /\ r.selected_year = selected_year
        dd == IF stale THEN district_df ELSE r.district_df
    IN  /\ uploaded_file' = file
        /\ status' = r.status
        /\ df' = r.df
        /\ years' = r.years
        /\ selected_year' = r.selected_year
        /\ states' = r.states
        /\ selected_state' = r.selected_state
        /\ filtered_df' = r.filtered_df
        /\ district_df' = dd
        /\ top_n' = n
        /\ IF r.status = "ok"
           THEN /\ steps' = r.steps \o <<"rank">>
                /\ top_districts' \in Ranked(dd, n)
           ELSE /\ steps' = r.steps
                /\ top_districts' = NoTable
        /\ UNCHANGED mode

\* One execution of the whole script with the widgets at (pickYear, pickState,
\* n): everything is computed anew from the uploaded file.
Rerun(file, pickYear, pickState, n) ==
    \E r \in {Script(mode, file, pickYear, pickState)} :
        /\ uploaded_file' = file
        /\ status' = r.status
        /\ df' = r.df
        /\ years' = r.years
        /\ selected_year' = r.selected_year
        /\ states' = r.states
        /\ selected_state' = r.selected_state
        /\ filtered_df' = r.filtered_df
        /\ district_df' = r.district_df
        /\ top_n' = n
        /\ IF r.status = "ok"
           THEN /\ steps' = r.steps \o <<"rank">>
                /\ top_districts' \in Ranked(r.district_df, n)
           ELSE /\ steps' = r.steps
                /\ top_districts' = NoTable
        /\ UNCHANGED mode

\* ------------------------------------------------------- uploaded datasets
AllCols == {"year", "state_name", "district_name", "registration_circles",
            "lat", "lon", "theft", "murder"}
BaseCols == AllCols \ {"murder"}

Row(y, s, d, r, la, lo, t) ==
    [year |-> y, state_name |-> s, district_name |-> d,
     registration_circles |-> r, lat |-> la, lon |-> lo, theft |-> t,
     murder |-> Num(1)]

Table(cols, rows) ==
    [cols |-> cols, rows |-> [i \in 1..Len(rows) |-> [c \in cols |-> rows[i][c]]]]

SeqsUpTo(S, n) == UNION {[1..k -> S] : k \in 0..n}

Labels == {NaN, Str(1), Str(2)}

\* sparse state and district labels
LabelRows ==
    {Row(Num(2020), s, d, Str(1), Num(1), Num(1), Num(1)) : s \in Labels, d \in Labels}

\* several years, sparse or missing years and states
YearRows ==
    {Row(y, s, Str(1), Str(1), Num(1), Num(1), Num(2)) :
        y \in {NaN, Num(2020), Num(2021)}, s \in {NaN, Str(1)}}

\* districts and coordinates, present or missing; each row counts one theft
GroupRows ==
    {Row(Num(2020), Str(1), d, Str(1), la, Num(1), Num(1)) :
        d \in {NaN, Str(1)}, la \in {NaN, Num(1), Num(2)}}

\* three districts with counts that tie or differ
DistrictRows ==
    {Row(Num(2020), Str(1), d, Str(1), Num(1), Num(1), t) :
        d \in {Str(1), Str(2), Str(3)}, t \in {Num(0), Num(1), Num(3)}}

\* what a crime cell can hold
CoerceRows ==
    {Row(Num(2020), Str(1), d, Str(1), Num(1), Num(1), t) :
        d \in {Str(1), Str(2)},
        t \in {NaN, Str(1), NumStr(2), Num(-1)}}

\* sparse registration circles
CircleRows ==
    {Row(Num(2020), s, Str(1), r, Num(1), Num(1), Num(1)) :
        s \in {NaN, Str(1)}, r \in Labels}

\* two districts of one state with thefts 10 and 30, under every column set
SchemaRows ==
    << Row(Num(2020), Str(1), Str(1), Str(1), Num(1), Num(1), Num(10)),
       Row(Num(2020), NaN, Str(2), NaN, Num(2), Num(2), Num(30)) >>

\* two years, each with two states
SurveyRows ==
    << Row(Num(2020), Str(1), Str(1), Str(1), Num(1), Num(1), Num(5)),
       Row(Num(2020), Str(2), Str(2), Str(1), Num(2), Num(2), Num(3)),
       Row(Num(2021), Str(1), Str(1), Str(1), Num(1), Num(1), Num(4)),
       Row(Num(2021), Str(2), Str(3), Str(1), Num(3), Num(3), Num(7)) >>

Files ==
    {Table(BaseCols, rows) :
        rows \in SeqsUpTo(LabelRows, MaxRows) \cup SeqsUpTo(YearRows, MaxRows)
                 \cup SeqsUpTo(GroupRows, MaxRows) \cup SeqsUpTo(DistrictRows, MaxRows)
                 \cup SeqsUpTo(CoerceRows, MaxRows) \cup SeqsUpTo(CircleRows, MaxRows)}
    \cup {Table(cols \cup {"theft"}, SchemaRows) : cols \in SUBSET AllCols}
    \cup {Table(BaseCols, SurveyRows)}

\* One row per district, district i with theft i or i + 1 (or counted down from
\* the top): ties between neighbours, and more districts than the smallest top_n.
RankRowsUp(n) ==
    {[i \in 1..n |-> Row(Num(2020), Str(1), Str(i), Str(1), Num(1), Num(1), Num(i + b[i]))] :
        b \in [1..n -> {0, 1}]}

RankRowsDown(n) ==
    {[i \in 1..n |-> Row(Num(2020), Str(1), Str(i), Str(1), Num(1), Num(1), Num(n - i + b[i]))] :
        b \in [1..n -> {0, 1}]}

RankFiles ==
    {Table(BaseCols, rows) :
        rows \in UNION {RankRowsUp(n) \cup RankRowsDown(n) : n \in 0..MaxRankRows}}

\* The slider values tried.
TopNs == {TopNMin, TopNDefault, TopNMax}

\* ---------------------------------------------------------------- actions
\* No file uploaded yet: the script stops at st.stop().
Init ==
    /\ mode \in {"table", "map"}
    /\ uploaded_file = NoTable
    /\ status = "no_file"
    /\ steps = <<>>
    /\ df = NoTable
    /\ years = <<>>
    /\ selected_year = None
    /\ states = <<>>
    /\ selected_state = None
    /\ filtered_df = NoTable
    /\ district_df = NoTable
    /\ top_n = TopNDefault
    /\ top_districts = NoTable

Upload(file) ==
    /\ status = "no_file"
    /\ Rerun(file, None, None, TopNDefault)

\* The year selectbox was drawn and another year is picked; the state selectbox
\* keeps its value or falls back to its first option.
ChangeYear(y) ==
    /\ "years" \in Range(steps)
    /\ y \in Range(years) \ {selected_year}
    /\ \E pick \in {None, selected_state} : Rerun(uploaded_file, y, pick, top_n)

ChangeState(s) ==
    /\ "states" \in Range(steps)
    /\ s \in Range(states) \ {selected_state}
    /\ Rerun(uploaded_file, selected_year, s, top_n)

\* The slider is drawn only when the script got that far.
ChangeTopN(n) ==
    /\ status = "ok"
    /\ n \in (TopNMin..TopNMax) \ {top_n}
    /\ Rerun(uploaded_file, selected_year, selected_state, n)

Next ==
    \/ status = "no_file" /\ \E file \in Files : Upload(file)
    \/ \E y \in Range(years) : ChangeYear(y)
    \/ \E s \in Range(states) : ChangeState(s)
    \/ \E n \in TopNs : ChangeTopN(n)

Spec == Init /\ [][Next]_vars

NextRank ==
    \/ \E file \in RankFiles : Upload(file)
    \/ \E n \in TopNs : ChangeTopN(n)

SpecRank == Init /\ [][NextRank]_vars

\* ================================================================= claims
Ran(stage) == stage \in Range(steps)
Raw(i, c) == uploaded_file.rows[i][c]
Cell(i, c) == df.rows[i][c]
RowNums == 1..Len(df.rows)

\* ------------------------------------------------------------------- C6
\* What Hierarchical Fill must leave in row i of a column: the original value
\* if present, else the value of the nearest row above whose original value
\* is present, else still missing.
FillExpected(orig, i) ==
    LET above == {j \in 1..(i-1) : ~isna(orig[j])}
    IN  IF ~isna(orig[i]) THEN orig[i]
        ELSE IF above = {} THEN NaN
        ELSE orig[CHOOSE j \in above : \A h \in above : h <= j]

\* C6: once the fill stage has run, every cell of state_name, district_name
\* and (table mode only) registration_circles holds its original value if it
\* had one, else the nearest preceding original value, and stays missing when
\* no row above has one; in map mode registration_circles is left as uploaded.
C6_HierarchicalFill ==
    Ran("ffill") =>
        /\ Len(df.rows) = Len(uploaded_file.rows)
        /\ \A c \in Range(fill_cols(mode)) : \A i \in RowNums :
                Cell(i, c) = FillExpected(Col(uploaded_file, c), i)
        /\ (mode = "map" /\ "registration_circles" \in df.cols) =>
                \A i \in RowNums :
                    Cell(i, "registration_circles") = Raw(i, "registration_circles")

\* A column with a leading missing cell that stays missing and a later missing
\* cell filled from the row above, which differs from the first value present.
C6_Witness ==
    /\ Ran("ffill")
    /\ mode = "table"
    /\ \E c \in Range(fill_cols(mode)) :
        /\ Len(df.rows) >= 3
        /\ \E i \in RowNums : isna(Raw(i, c)) /\ isna(Cell(i, c))
        /\ \E i \in RowNums : isna(Raw(i, c)) /\ ~isna(Cell(i, c))
    /\ \E i \in RowNums :
        /\ isna(Raw(i, "registration_circles"))
        /\ ~isna(Cell(i, "registration_circles"))
        /\ Cell(i, "registration_circles") # Raw(1, "registration_circles")

\* ------------------------------------------------------------------- C2
IsCrimeCol(c) == c \in df.cols /\ c \notin exclude_cols(mode)

\* C2 as claimed: after Numeric Coercion every crime-type cell is a finite
\* number >= 0, whatever the raw cell held, a parseable negative number
\* included.
C2_NonNegative ==
    Ran("coerce") =>
        \A i \in RowNums : \A c \in df.cols :
            IsCrimeCol(c) => Cell(i, c).k = "num" /\ Cell(i, c).v >= 0

\* C2 as amended: after Numeric Coercion every crime-type cell is a number,
\* never missing and never text: the number the raw cell held or spelled, and
\* 0 when the raw cell was missing or unparseable.  A negative number stays
\* negative.
C2_Coerced ==
    Ran("coerce") =>
        \A i \in RowNums : \A c \in df.cols :
            IsCrimeCol(c) =>
                /\ Cell(i, c).k = "num"
                /\ Cell(i, c).v = IF Raw(i, c).k \in {"num", "numstr"}
                                  THEN Raw(i, c).v ELSE 0

\* A crime column holding a missing cell, text, numeric text and a negative
\* number has been coerced.
C2_Witness ==
    /\ Ran("coerce")
    /\ \E i \in RowNums : Raw(i, "theft").k = "nan" /\ Cell(i, "theft") = Num(0)
    /\ \E i \in RowNums : Raw(i, "theft").k = "str" /\ Cell(i, "theft") = Num(0)
    /\ \E i \in RowNums : Raw(i, "theft").k = "num" /\ Cell(i, "theft").v < 0

\* ------------------------------------------------------------------- C4
AggNums == 1..Len(district_df.rows)
Total(j) == district_df.rows[j].total_crime
Index(j) == district_df.rows[j].crime_index
MinTotal == CHOOSE a \in {Total(j) : j \in AggNums} : \A j \in AggNums : a <= Total(j)
MaxTotal == CHOOSE a \in {Total(j) : j \in AggNums} : \A j \in AggNums : a >= Total(j)

TopNums == 1..Len(top_districts.rows)
TopRow(i) == top_districts.rows[i]

\* The place in district_df of a row of the aggregate.
PlaceOf(row) == CHOOSE j \in AggNums : district_df.rows[j] = row

\* C7 as claimed: the top-N table has min(top_n, n) rows, in descending
\* crime_index order with equal rows in their aggregate order, and ranking it
\* again returns the same rows in the same order.
C7_StableRanking ==
    status = "ok" =>
        /\ Len(top_districts.rows) = Min2(top_n, Len(district_df.rows))
        /\ Descending(top_districts.rows)
        /\ \A i, j \in TopNums :
            (i < j /\ IndexEq(TopRow(i).crime_index, TopRow(j).crime_index))
                => PlaceOf(TopRow(i)) < PlaceOf(TopRow(j))
        /\ \A again \in Ranked(top_districts, top_n) : again = top_districts

\* C7 as amended: the top-N table has min(top_n, n) rows of the aggregate, no
\* row twice, in descending crime_index order; no row left out has a larger
\* crime_index than a row kept; ranking it again returns the same rows with
\* the same sequence of crime_index values.  The order of rows with equal
\* crime_index is not fixed.
C7_Ranking ==
    status = "ok" =>
        /\ Len(top_districts.rows) = Min2(top_n, Len(district_df.rows))
        /\ Descending(top_districts.rows)
        /\ Range(top_districts.rows) \subseteq Range(district_df.rows)
        /\ Cardinality(Range(top_districts.rows)) = Len(top_districts.rows)
        /\ \A kept \in Range(top_districts.rows) :
            \A out \in Range(district_df.rows) \ Range(top_districts.rows) :
                IndexGE(kept.crime_index, out.crime_index)
        /\ \A again \in Ranked(top_districts, top_n) :
            /\ Range(again.rows) = Range(top_districts.rows)
            /\ Len(again.rows) = Len(top_districts.rows)
            /\ \A i \in TopNums :
                IndexEq(again.rows[i].crime_index, TopRow(i).crime_index)

\* More districts than top_n, so the table is cut, and two rows kept tie.
C7_Witness ==
    /\ status = "ok"
    /\ Len(district_df.rows) > top_n
    /\ Len(top_districts.rows) = top_n
    /\ \E i, j \in TopNums :
        i < j /\ IndexEq(TopRow(i).crime_index, TopRow(j).crime_index)

\* ------------------------------------------------------------------- C1
\* The columns of a complete District Aggregate.
AggregateCols ==
    Range(key_cols(mode)) \cup {c \in df.cols : IsCrimeCol(c)}
        \cup {"total_crime", "crime_index"}

\* C1: whenever a year and a state are selected and the filter stage yields no
\* row, or the aggregate has no row, the run completes without raising and
\* the District Aggregate is the empty table with the expected columns,
\* crime_index among them.
C1_EmptySelection ==
    (Ran("filter") /\ selected_year # None /\ selected_state # None
        /\ (Len(filtered_df.rows) = 0 \/ Len(district_df.rows) = 0)) =>
        /\ status = "ok"
        /\ district_df.rows = <<>>
        /\ district_df.cols = AggregateCols

\* ------------------------------------------------------------------- C3
FilteredNums == 1..Len(filtered_df.rows)
FilteredKey(i) == KeyOf(filtered_df.rows[i], key_cols(mode))

\* C3: the grouping keys of the aggregate are exactly the grouping keys of the
\* filtered rows, keys with a missing district or coordinate included, one
\* row per key, and each crime column of a group is the sum of that column
\* over exactly the filtered rows with that key.  Stated for the runs that
\* complete, where the aggregate is displayed.
C3_Aggregator ==
    (Ran("aggregate") /\ status = "ok") =>
        /\ {district_df.rows[j].key : j \in AggNums}
                = {FilteredKey(i) : i \in FilteredNums}
        /\ \A j, h \in AggNums :
                district_df.rows[j].key = district_df.rows[h].key => j = h
        /\ \A j \in AggNums : \A c \in DOMAIN district_df.rows[j].sums :
                district_df.rows[j].sums[c]
                    = SumSet([i \in FilteredNums |-> filtered_df.rows[i][c].v],
                             {i \in FilteredNums :
                                FilteredKey(i) = district_df.rows[j].key})

\* ------------------------------------------------------------------- C5
\* C5: in map mode a table without lat or lon ends the run in the blocking
\* schema error (whose message names lat and lon), and no coercion, filter,
\* aggregation, crime-index or ranking stage runs.
C5_SchemaError ==
    (mode = "map" /\ status # "no_file"
        /\ ~(required_columns \subseteq uploaded_file.cols)) =>
        /\ status = "SchemaError"
        /\ \A stage \in {"coerce", "filter", "aggregate", "total_crime",
                         "crime_index", "rank"} : ~Ran(stage)

\* With state_name and district_name present the check is reached, and the
\* run stops there.
C5_CheckReached ==
    (mode = "map" /\ status # "no_file"
        /\ {"state_name", "district_name"} \subseteq uploaded_file.cols
        /\ ~(required_columns \subseteq uploaded_file.cols)) =>
        /\ status = "SchemaError"
        /\ \A stage \in {"coerce", "filter", "aggregate", "total_crime",
                         "crime_index", "rank"} : ~Ran(stage)

\* ------------------------------------------------------------------- C8
\* C8: in table mode a table with year, state_name, district_name and a crime
\* column but without registration_circles passes Hierarchical Fill, and the
\* run goes on to the District Aggregate.
C8_OptionalCircles ==
    (mode = "table" /\ status # "no_file"
        /\ {"year", "state_name", "district_name"} \subseteq uploaded_file.cols
        /\ uploaded_file.cols \ exclude_cols(mode) # {}
        /\ "registration_circles" \notin uploaded_file.cols) =>
        /\ status # "KeyError"
        /\ Ran("ffill")
        /\ Ran("aggregate")

\* ------------------------------------------------------------------ C10
\* C10: every (year, state) the selectboxes offer selects at least one row,
\* the still-missing state of a leading unfilled row included; and when the
\* year column has no value, nothing is offered and the run does not go on to
\* aggregation.
C10_OfferedSelects ==
    /\ Ran("filter") => Len(filtered_df.rows) >= 1
    /\ (Ran("years") /\ years = <<>>) => ~Ran("aggregate")
====
